---- MODULE Spec2Model ----
(***************************************************************************)
(* Operator typing of the IR lowerer (src/ir/lower/op.rs) over the type    *)
(* interner of the IR context (src/ir/mod.rs).                             *)
(*                                                                         *)
(* A TypeId is a natural number, the raw index of the handle; the interner *)
(* is the sequence `types`, and handle h is stored at position h + 1.      *)
(* `dedup` is the contract of the interner of this context: whether an     *)
(* insert of a type equal to a stored one returns the stored handle.       *)
(* A string is a sequence of pieces, so that formatting is concatenation.  *)
(*                                                                         *)
(* The binary expressions of the code generator (src/code/llvm/mod.rs,     *)
(* Compiler::gen_bin) are modelled by the builder calls they make.         *)
(***************************************************************************)
EXTENDS Integers, Sequences, FiniteSets, TLC

VARIABLES types, pc, last, dedup

vars == <<types, pc, last, dedup>>

(* Bounds of the model *)
MaxExtra == 2
MaxPos == 2
MaxInserted == 3
MaxAddr == 2

(***************************************************************************)
(* IrType values                                                           *)
(***************************************************************************)
IntegerType(s, w) == [kind |-> "Integer", signed |-> s, width |-> w]
FloatType(d) == [kind |-> "Float", doublewide |-> d]
BoolType == [kind |-> "Bool"]
UnitType == [kind |-> "Unit"]
InvalidType == [kind |-> "Invalid"]
PtrType(to) == [kind |-> "Ptr", to |-> to]
ArrayType(e, n) == [kind |-> "Array", element |-> e, len |-> n]
StructType(fs) == [kind |-> "Struct", fields |-> fs]
SumType(vs) == [kind |-> "Sum", variants |-> vs]
AliasType(n, t) == [kind |-> "Alias", name |-> n, ty |-> t]
FunType(as, r) == [kind |-> "Fun", args |-> as, return_ty |-> r]

(***************************************************************************)
(* IrContext: the fixed handles and the constructor                        *)
(***************************************************************************)
I8 == 0
I16 == 1
I32 == 2
I64 == 3
U8 == 4
U16 == 5
U32 == 6
U64 == 7
BOOL == 8
UNIT == 9
F32 == 10
F64 == 11
INVALID == 12

Index_FromEnd(ts, id) == ts[Len(ts) - id]

(* Index<TypeId> for IrContext: the type a handle is stored under *)
Index(ts, id) == ts[id + 1]

Handles(ts) == 0 .. (Len(ts) - 1)

(* Interner::insert stores the value at the end and returns its handle.    *)
(* Whether an equal value already stored is reused instead is the          *)
(* interner's contract, which its callers do not fix: dedup holds it, TRUE *)
(* for an interner that returns the handle of the first equal value, FALSE *)
(* for one that appends on every insert.                                   *)
Insert(ts, t) ==
    IF dedup /\ \E i \in 1 .. Len(ts) : ts[i] = t
    THEN [types |-> ts,
          id |-> (CHOOSE i \in 1 .. Len(ts) :
                     ts[i] = t /\ \A j \in 1 .. (i - 1) : ts[j] # t) - 1]
    ELSE [types |-> Append(ts, t), id |-> Len(ts)]

(* the inserts of IrContext::new, in order.  Its thirteen types differ     *)
(* from one another, so under either contract each insert stores its       *)
(* value at the end.                                                       *)
RECURSIVE InsertAll(_, _)
InsertAll(ts, seq) ==
    IF seq = << >> THEN ts
    ELSE InsertAll(Append(ts, Head(seq)), Tail(seq))

new_BoolAfterFloats ==
    InsertAll(<< >>,
        << IntegerType(TRUE, 8), IntegerType(TRUE, 16),
           IntegerType(TRUE, 32), IntegerType(TRUE, 64),
           IntegerType(FALSE, 8), IntegerType(FALSE, 16),
           IntegerType(FALSE, 32), IntegerType(FALSE, 64),
           FloatType(FALSE), FloatType(TRUE),
           BoolType, UnitType,
           InvalidType >>)

(* IrContext::new *)
new ==
    InsertAll(<< >>,
        << IntegerType(TRUE, 8), IntegerType(TRUE, 16),
           IntegerType(TRUE, 32), IntegerType(TRUE, 64),
           IntegerType(FALSE, 8), IntegerType(FALSE, 16),
           IntegerType(FALSE, 32), IntegerType(FALSE, 64),
           BoolType, UnitType,
           FloatType(FALSE), FloatType(TRUE),
           InvalidType >>)

(***************************************************************************)
(* Display for TypenameFormatter, and IrContext::typename                  *)
(***************************************************************************)
DigitStr(d) ==
    CASE d = 0 -> "0" [] d = 1 -> "1" [] d = 2 -> "2" [] d = 3 -> "3"
      [] d = 4 -> "4" [] d = 5 -> "5" [] d = 6 -> "6" [] d = 7 -> "7"
      [] d = 8 -> "8" [] d = 9 -> "9"

(* Display of an unsigned integer, in decimal *)
RECURSIVE NatStr(_)
NatStr(n) ==
    IF n < 10 THEN << DigitStr(n) >>
    ELSE NatStr(n \div 10) \o << DigitStr(n % 10) >>

IntegerName(ity) ==
    CASE ity.signed /\ ity.width = 8 -> "i8"
      [] ity.signed /\ ity.width = 16 -> "i16"
      [] ity.signed /\ ity.width = 32 -> "i32"
      [] ity.signed /\ ity.width = 64 -> "i64"
      [] ~ity.signed /\ ity.width = 8 -> "u8"
      [] ~ity.signed /\ ity.width = 16 -> "u16"
      [] ~ity.signed /\ ity.width = 32 -> "u32"
      [] ~ity.signed /\ ity.width = 64 -> "u64"

RECURSIVE fmt(_, _)

(* the loop over sum.variants *)
RECURSIVE FmtVariants(_, _)
FmtVariants(ts, vs) ==
    IF vs = << >> THEN << >>
    ELSE fmt(ts, Head(vs)) \o << " | " >> \o FmtVariants(ts, Tail(vs))

RECURSIVE FmtFields_NoTrailingComma(_, _)
FmtFields_NoTrailingComma(ts, fs) ==
    IF fs = << >> THEN << >>
    ELSE fmt(ts, Head(fs)[1]) \o << " ", Head(fs)[2] >>
         \o (IF Tail(fs) = << >> THEN << >> ELSE << "," >>)
         \o FmtFields_NoTrailingComma(ts, Tail(fs))

(* the loop over structure.fields: pairs (field_ty, field_name) *)
RECURSIVE FmtFields(_, _)
FmtFields(ts, fs) ==
    IF fs = << >> THEN << >>
    ELSE fmt(ts, Head(fs)[1]) \o << " ", Head(fs)[2], "," >>
         \o FmtFields(ts, Tail(fs))

(* the loop over fun.args: pairs (arg_ty, arg_name), a missing name is "" *)
RECURSIVE FmtArgs(_, _)
FmtArgs(ts, as) ==
    IF as = << >> THEN << >>
    ELSE fmt(ts, Head(as)[1]) \o << " ", Head(as)[2], ", " >>
         \o FmtArgs(ts, Tail(as))

fmt(ts, ty) ==
    LET t == Index(ts, ty) IN
    CASE t.kind = "Integer" -> << IntegerName(t) >>
      [] t.kind = "Bool" -> << "bool" >>
      [] t.kind = "Unit" -> << "()" >>
      [] t.kind = "Sum" -> FmtVariants(ts, t.variants)
      [] t.kind = "Float" -> << IF t.doublewide THEN "f64" ELSE "f32" >>
      [] t.kind = "Alias" -> << t.name >>
      [] t.kind = "Array" ->
            << "[" >> \o NatStr(t.len) \o << "]" >> \o fmt(ts, t.element)
      [] t.kind = "Struct" -> << "{" >> \o FmtFields(ts, t.fields) \o << "}" >>
      [] t.kind = "Ptr" -> << "*" >> \o fmt(ts, t.to)
      [] t.kind = "Fun" ->
            << "fun (" >> \o FmtArgs(ts, t.args) \o << ") -> " >>
            \o fmt(ts, t.return_ty)
      [] t.kind = "Invalid" -> << "INVALID" >>

typename(ts, ty) == fmt(ts, ty)

(***************************************************************************)
(* Operators, spans, diagnostics                                           *)
(***************************************************************************)
Op == { "Eq", "Greater", "GreaterEq", "Less", "LessEq", "Star", "Div",
        "Add", "Sub", "ShLeft", "ShRight",
        "LogicalAnd", "LogicalOr", "LogicalNot", "AND", "NOT" }

(* Display for Op: the operator as it is written in a message *)
OpDisplay(op) == << op >>

Span(from, to) == [from |-> from, to |-> to]

(* Label::primary, Label::secondary, Label::with_message *)
LabelPrimary(file, span) ==
    [style |-> "primary", file |-> file, span |-> span, message |-> << >>]
LabelSecondary(file, span) ==
    [style |-> "secondary", file |-> file, span |-> span, message |-> << >>]
WithMessage(label, msg) == [label EXCEPT !.message = msg]

(* Diagnostic::error().with_message(..).with_labels(..) *)
DiagnosticError(msg, labels) ==
    [severity |-> "error", message |-> msg, labels |-> labels]

(* Result<IrExpr, Diagnostic<FileId>>, together with the interner it leaves *)
Ok(ts, expr) == [types |-> ts, ok |-> TRUE, val |-> expr]
Err(ts, diag) == [types |-> ts, ok |-> FALSE, val |-> diag]

(* the scrutinee has no arm but the catch-all *)
NoType == 0 - 1

(***************************************************************************)
(* IrLowerer::lower_bin                                                    *)
(***************************************************************************)
(* the arms of the match on (lhs type, op, rhs type), over the kinds l and *)
(* r of the operand types                                                  *)
BoolArm_WithoutLogicalNot(l, op, r) ==
    /\ l = "Bool"
    /\ op \in {"LogicalAnd", "LogicalOr", "Eq"}
    /\ r = "Bool"

BoolArm(l, op, r) ==
    /\ l = "Bool"
    /\ op \in {"LogicalAnd", "LogicalOr", "LogicalNot", "Eq"}
    /\ r = "Bool"

IntegerArm_FloatRhs(l, op, r) ==
    /\ l = "Integer"
    /\ op \in {"Eq", "Greater", "GreaterEq", "Less", "LessEq", "Star", "Div",
               "Add", "Sub", "ShLeft", "ShRight"}
    /\ r \in {"Integer", "Float"}

IntegerArm(l, op, r) ==
    /\ l = "Integer"
    /\ op \in {"Eq", "Greater", "GreaterEq", "Less", "LessEq", "Star", "Div",
               "Add", "Sub", "ShLeft", "ShRight"}
    /\ r = "Integer"

FloatArm_WithShifts(l, op, r) ==
    /\ l = "Float"
    /\ op \in {"Eq", "Greater", "GreaterEq", "Less", "LessEq", "Star", "Div",
               "Add", "Sub", "ShLeft", "ShRight"}
    /\ r = "Float"

FloatArm(l, op, r) ==
    /\ l = "Float"
    /\ op \in {"Eq", "Greater", "GreaterEq", "Less", "LessEq", "Star", "Div",
               "Add", "Sub"}
    /\ r = "Float"

PtrShiftArm(l, op, r) ==
    /\ l = "Ptr"
    /\ op \in {"ShRight", "ShLeft"}
    /\ r = "Integer"

PtrOffsetArm_IntegerOnly(l, op, r) ==
    /\ l = "Ptr"
    /\ op \in {"Add", "Sub"}
    /\ r = "Integer"

PtrOffsetArm(l, op, r) ==
    /\ l = "Ptr"
    /\ op \in {"Add", "Sub"}
    /\ r \in {"Ptr", "Integer"}

BinaryTy_ComparisonsBool(ts, lhs, op, rhs) ==
    LET l == Index(ts, lhs.ty).kind
        r == Index(ts, rhs.ty).kind
    IN  CASE BoolArm(l, op, r) -> BOOL
          [] IntegerArm(l, op, r) ->
                IF op \in {"Eq", "Greater", "GreaterEq", "Less", "LessEq"}
                THEN BOOL ELSE lhs.ty
          [] FloatArm(l, op, r) ->
                IF op \in {"Eq", "Greater", "GreaterEq", "Less", "LessEq"}
                THEN BOOL ELSE lhs.ty
          [] PtrShiftArm(l, op, r) -> lhs.ty
          [] PtrOffsetArm(l, op, r) -> lhs.ty
          [] OTHER -> NoType

BinaryTy_ThroughAliases(ts, lhs, op, rhs) ==
    LET Underlying(t) == IF t.kind = "Alias" THEN Index(ts, t.ty) ELSE t
        l == Underlying(Index(ts, lhs.ty)).kind
        r == Underlying(Index(ts, rhs.ty)).kind
    IN  CASE BoolArm(l, op, r) -> BOOL
          [] IntegerArm(l, op, r) -> lhs.ty
          [] FloatArm(l, op, r) -> lhs.ty
          [] PtrShiftArm(l, op, r) -> lhs.ty
          [] PtrOffsetArm(l, op, r) -> lhs.ty
          [] OTHER -> NoType

(* the match: the result type, or NoType for the catch-all arm *)
BinaryTy(ts, lhs, op, rhs) ==
    LET l == Index(ts, lhs.ty).kind
        r == Index(ts, rhs.ty).kind
    IN  CASE BoolArm(l, op, r) -> BOOL
          [] IntegerArm(l, op, r) -> lhs.ty
          [] FloatArm(l, op, r) -> lhs.ty
          [] PtrShiftArm(l, op, r) -> lhs.ty
          [] PtrOffsetArm(l, op, r) -> lhs.ty
          [] OTHER -> NoType

BinaryMismatch_RhsNamedAsLhs(ts, file, lhs, op, rhs) ==
    DiagnosticError(
        << "Cannot apply binary operator " >> \o OpDisplay(op)
            \o << " to operand types " >> \o typename(ts, lhs.ty)
            \o << " and " >> \o typename(ts, rhs.ty),
        << LabelPrimary(file, Span(lhs.span.from, rhs.span.to)),
           WithMessage(LabelSecondary(file, lhs.span),
               << "LHS of type " >> \o typename(ts, lhs.ty)
                   \o << " appears here" >>),
           WithMessage(LabelSecondary(file, rhs.span),
               << "RHS of type " >> \o typename(ts, lhs.ty)
                   \o << " appears here" >>) >>)

(* the diagnostic of the catch-all arm *)
BinaryMismatch(ts, file, lhs, op, rhs) ==
    DiagnosticError(
        << "Cannot apply binary operator " >> \o OpDisplay(op)
            \o << " to operand types " >> \o typename(ts, lhs.ty)
            \o << " and " >> \o typename(ts, rhs.ty),
        << LabelPrimary(file, Span(lhs.span.from, rhs.span.to)),
           WithMessage(LabelSecondary(file, lhs.span),
               << "LHS of type " >> \o typename(ts, lhs.ty)
                   \o << " appears here" >>),
           WithMessage(LabelSecondary(file, rhs.span),
               << "RHS of type " >> \o typename(ts, rhs.ty)
                   \o << " appears here" >>) >>)

BinarySpan_LhsOnly(lhs, rhs) == lhs.span

(* the span of the result expression *)
BinarySpan(lhs, rhs) == Span(lhs.span.from, rhs.span.to)

RECURSIVE lower_expr(_, _, _)

lower_bin_RhsFirst(ts, file, lhs, op, rhs) ==
    LET r == lower_expr(ts, file, rhs) IN
    IF ~r.ok THEN r
    ELSE
    LET l == lower_expr(r.types, file, lhs) IN
    IF ~l.ok THEN l
    ELSE
    LET ty == BinaryTy(l.types, l.val, op, r.val) IN
    IF ty = NoType
    THEN Err(l.types, BinaryMismatch(l.types, file, l.val, op, r.val))
    ELSE Ok(l.types,
            [span |-> BinarySpan(l.val, r.val),
             ty |-> ty,
             kind |-> [tag |-> "Binary", lhs |-> l.val, op |-> op,
                       rhs |-> r.val]])

lower_bin_RollsBackOnMismatch(ts, file, lhs, op, rhs) ==
    LET l == lower_expr(ts, file, lhs) IN
    IF ~l.ok THEN l
    ELSE
    LET r == lower_expr(l.types, file, rhs) IN
    IF ~r.ok THEN r
    ELSE
    LET ty == BinaryTy(r.types, l.val, op, r.val) IN
    IF ty = NoType
    THEN Err(ts, BinaryMismatch(r.types, file, l.val, op, r.val))
    ELSE Ok(r.types,
            [span |-> BinarySpan(l.val, r.val),
             ty |-> ty,
             kind |-> [tag |-> "Binary", lhs |-> l.val, op |-> op,
                       rhs |-> r.val]])

lower_bin(ts, file, lhs, op, rhs) ==
    LET l == lower_expr(ts, file, lhs) IN
    IF ~l.ok THEN l
    ELSE
    LET r == lower_expr(l.types, file, rhs) IN
    IF ~r.ok THEN r
    ELSE
    LET ty == BinaryTy(r.types, l.val, op, r.val) IN
    IF ty = NoType
    THEN Err(r.types, BinaryMismatch(r.types, file, l.val, op, r.val))
    ELSE Ok(r.types,
            [span |-> BinarySpan(l.val, r.val),
             ty |-> ty,
             kind |-> [tag |-> "Binary", lhs |-> l.val, op |-> op,
                       rhs |-> r.val]])

(***************************************************************************)
(* IrLowerer::lower_unary                                                  *)
(***************************************************************************)
UnaryTy_StarKeepsPtr(ts, op, expr) ==
    LET t == Index(ts, expr.ty) IN
    CASE op = "Star" /\ t.kind = "Ptr" -> [types |-> ts, id |-> expr.ty]
      [] op = "AND" -> Insert(ts, PtrType(expr.ty))
      [] op = "Sub" /\ t.kind \in {"Integer", "Float"} ->
            [types |-> ts, id |-> expr.ty]
      [] op = "NOT" /\ t.kind \in {"Integer", "Ptr"} ->
            [types |-> ts, id |-> expr.ty]
      [] OTHER -> [types |-> ts, id |-> NoType]

UnaryTy_AddrOfKeepsOperandType(ts, op, expr) ==
    LET t == Index(ts, expr.ty) IN
    CASE op = "Star" /\ t.kind = "Ptr" -> [types |-> ts, id |-> t.to]
      [] op = "AND" ->
            [types |-> Insert(ts, PtrType(expr.ty)).types, id |-> expr.ty]
      [] op = "Sub" /\ t.kind \in {"Integer", "Float"} ->
            [types |-> ts, id |-> expr.ty]
      [] op = "NOT" /\ t.kind \in {"Integer", "Ptr"} ->
            [types |-> ts, id |-> expr.ty]
      [] OTHER -> [types |-> ts, id |-> NoType]

UnaryTy_NotOnIntegerOnly(ts, op, expr) ==
    LET t == Index(ts, expr.ty) IN
    CASE op = "Star" /\ t.kind = "Ptr" -> [types |-> ts, id |-> t.to]
      [] op = "AND" -> Insert(ts, PtrType(expr.ty))
      [] op = "Sub" /\ t.kind \in {"Integer", "Float"} ->
            [types |-> ts, id |-> expr.ty]
      [] op = "NOT" /\ t.kind \in {"Integer"} ->
            [types |-> ts, id |-> expr.ty]
      [] OTHER -> [types |-> ts, id |-> NoType]

UnaryTy_NegationInterns(ts, op, expr) ==
    LET t == Index(ts, expr.ty) IN
    CASE op = "Star" /\ t.kind = "Ptr" -> [types |-> ts, id |-> t.to]
      [] op = "AND" -> Insert(ts, PtrType(expr.ty))
      [] op = "Sub" /\ t.kind \in {"Integer", "Float"} ->
            [types |-> Insert(ts, PtrType(expr.ty)).types, id |-> expr.ty]
      [] op = "NOT" /\ t.kind \in {"Integer", "Ptr"} ->
            [types |-> ts, id |-> expr.ty]
      [] OTHER -> [types |-> ts, id |-> NoType]

(* the match on (op, operand type): the interner it leaves and the result  *)
(* type, or NoType for the catch-all arm                                   *)
UnaryTy(ts, op, expr) ==
    LET t == Index(ts, expr.ty) IN
    CASE op = "Star" /\ t.kind = "Ptr" -> [types |-> ts, id |-> t.to]
      [] op = "AND" -> Insert(ts, PtrType(expr.ty))
      [] op = "Sub" /\ t.kind \in {"Integer", "Float"} ->
            [types |-> ts, id |-> expr.ty]
      [] op = "NOT" /\ t.kind \in {"Integer", "Ptr"} ->
            [types |-> ts, id |-> expr.ty]
      [] OTHER -> [types |-> ts, id |-> NoType]

UnaryMismatch_WithSecondary(ts, file, op, expr) ==
    DiagnosticError(
        << "Cannot apply unary operator " >> \o OpDisplay(op)
            \o << " to expression of type " >> \o typename(ts, expr.ty),
        << LabelPrimary(file, expr.span),
           WithMessage(LabelSecondary(file, expr.span),
               << "Operand of type " >> \o typename(ts, expr.ty)
                   \o << " appears here" >>) >>)

(* the diagnostic of the catch-all arm *)
UnaryMismatch(ts, file, op, expr) ==
    DiagnosticError(
        << "Cannot apply unary operator " >> \o OpDisplay(op)
            \o << " to expression of type " >> \o typename(ts, expr.ty),
        << LabelPrimary(file, expr.span) >>)

UnarySpan_WithOperator(expr) == Span(expr.span.from - 1, expr.span.to)

(* the span of the result expression *)
UnarySpan(expr) == expr.span

lower_unary(ts, file, op, expr) ==
    LET e == lower_expr(ts, file, expr) IN
    IF ~e.ok THEN e
    ELSE
    LET m == UnaryTy(e.types, op, e.val) IN
    IF m.id = NoType
    THEN Err(m.types, UnaryMismatch(m.types, file, op, e.val))
    ELSE Ok(m.types,
            [span |-> UnarySpan(e.val),
             ty |-> m.id,
             kind |-> [tag |-> "Unary", op |-> op, expr |-> e.val]])

(***************************************************************************)
(* IrLowerer::lower_expr: the dispatch on the AST node.  An Atom is an     *)
(* expression of another kind (a literal, a variable, a call) that lowers  *)
(* to an expression of type ty over its span; a Bad is one whose lowering  *)
(* fails with a diagnostic of its own.                                     *)
(***************************************************************************)
Atom(span, ty) == [node |-> "Atom", span |-> span, ty |-> ty]
Bad(span) == [node |-> "Bad", span |-> span]
Unary(op, e) == [node |-> "Unary", op |-> op, expr |-> e]
Bin(l, op, r) == [node |-> "Bin", lhs |-> l, op |-> op, rhs |-> r]

OperandDiagnostic(file, span) ==
    DiagnosticError(<< "Unknown identifier" >>, << LabelPrimary(file, span) >>)

lower_expr(ts, file, e) ==
    CASE e.node = "Atom" ->
            Ok(ts, [span |-> e.span, ty |-> e.ty, kind |-> [tag |-> "Atom"]])
      [] e.node = "Bad" -> Err(ts, OperandDiagnostic(file, e.span))
      [] e.node = "Unary" -> lower_unary(ts, file, e.op, e.expr)
      [] e.node = "Bin" -> lower_bin(ts, file, e.lhs, e.op, e.rhs)

(***************************************************************************)
(* The inputs of the model                                                 *)
(***************************************************************************)
MaxTypes == Len(new) + MaxExtra

FileIds == { 0 }

(* source ranges from..to of at least one position *)
Spans == { s \in [from : 0 .. MaxPos, to : 0 .. MaxPos] : s.from < s.to }

(* the types an expression of another kind is lowered to: integers that    *)
(* differ in width only and in signedness only, every other primitive kind *)
(* and every type inserted after construction                              *)
LeafTypes(ts) ==
    { I32, I64, U32, BOOL, UNIT, F32, F64, INVALID }
    \cup { h \in Handles(ts) : h >= Len(new) }

(* the operand expressions over one span *)
Operands(ts, span) ==
    { Atom(span, h) : h \in LeafTypes(ts) }
    \cup { Bad(span) }
    \cup { Unary("AND", Atom(span, I32)), Unary("Star", Atom(span, BOOL)) }

(* the types a declaration of the program inserts: a struct, aliases of an *)
(* integer, a float, a bool and of every pointer type inserted so far, and *)
(* pointers                                                                *)
DeclTypes(ts) ==
    { StructType(<< <<I32, "x">> >>),
      AliasType("T", I32), AliasType("F", F64), AliasType("B", BOOL) }
    \cup { AliasType("P", h) : h \in { g \in Handles(ts) :
                                          Index(ts, g).kind = "Ptr" } }
    \cup { PtrType(h) : h \in LeafTypes(ts) }

(***************************************************************************)
(* The state machine: the context is created, then declarations insert     *)
(* types and expressions are lowered against it, one call at a time.       *)
(***************************************************************************)
Init ==
    /\ dedup \in BOOLEAN
    /\ types = new
    /\ pc = "idle"
    /\ last = [fn |-> "new"]

(* a call of lower_bin on the operands lhs and rhs, in source order *)
LowerBin ==
    /\ pc = "idle"
    /\ \E file \in FileIds, ls \in Spans, rs \in Spans, op \in Op :
         /\ ls.to <= rs.from
         /\ \E lhs \in Operands(types, ls), rhs \in Operands(types, rs) :
              LET res == lower_bin(types, file, lhs, op, rhs) IN
              /\ Len(res.types) <= MaxTypes
              /\ types' = res.types
              /\ last' = [fn |-> "lower_bin", file |-> file, lhs |-> lhs,
                          op |-> op, rhs |-> rhs, before |-> types,
                          ok |-> res.ok, val |-> res.val]
    /\ pc' = "done"
    /\ UNCHANGED dedup

(* a call of lower_unary on the operand expr *)
LowerUnary ==
    /\ pc = "idle"
    /\ \E file \in FileIds, span \in Spans, op \in Op :
         \E expr \in Operands(types, span) :
              LET res == lower_unary(types, file, op, expr) IN
              /\ Len(res.types) <= MaxTypes
              /\ types' = res.types
              /\ last' = [fn |-> "lower_unary", file |-> file, op |-> op,
                          expr |-> expr, before |-> types,
                          ok |-> res.ok, val |-> res.val]
    /\ pc' = "done"
    /\ UNCHANGED dedup

(* a declaration inserts a type *)
InsertType ==
    /\ pc = "idle"
    /\ \E t \in DeclTypes(types) :
         LET res == Insert(types, t) IN
         /\ Len(res.types) <= MaxTypes
         /\ types' = res.types
         /\ last' = [fn |-> "insert", ty |-> t, before |-> types,
                     id |-> res.id]
    /\ pc' = "done"
    /\ UNCHANGED dedup

(* the caller takes the result *)
Return ==
    /\ pc = "done"
    /\ pc' = "idle"
    /\ UNCHANGED dedup
    /\ last' = [fn |-> "none"]
    /\ UNCHANGED types

Next == LowerBin \/ LowerUnary \/ InsertType \/ Return

Spec == Init /\ [][Next]_vars

(***************************************************************************)
(* The interner on its own: declarations insert structural types, the      *)
(* address-of operator inserts pointer types, and typename renders a       *)
(* handle.                                                                 *)
(***************************************************************************)
Inserted(ts) == { h \in Handles(ts) : h >= Len(new) }

(* the types a declaration inserts, over the types inserted before it *)
TypeDecls(ts) ==
    { StructType(<< <<I32, "x">> >>),
      SumType(<< I32, BOOL >>), SumType(<< U8, F64, UNIT >>),
      AliasType("T", I32) }
    \cup { ArrayType(h, n) : h \in Inserted(ts), n \in {4, 12} }

(* the types of the operands whose address is taken *)
AddressedTypes(ts) == { I32, BOOL } \cup Inserted(ts)

(* a declaration inserts a structural type *)
DeclareType ==
    /\ pc = "idle"
    /\ \E t \in TypeDecls(types) :
         LET res == Insert(types, t) IN
         /\ Len(res.types) <= Len(new) + MaxInserted
         /\ types' = res.types
         /\ last' = [fn |-> "insert", ty |-> t, before |-> types,
                     id |-> res.id]
    /\ pc' = "done"
    /\ UNCHANGED dedup

(* a call of lower_unary with AND *)
TakeAddress ==
    /\ pc = "idle"
    /\ \E file \in FileIds, span \in Spans, h \in AddressedTypes(types) :
         LET expr == Atom(span, h)
             res == lower_unary(types, file, "AND", expr)
         IN  /\ Len(res.types) <= Len(new) + MaxInserted
             /\ types' = res.types
             /\ last' = [fn |-> "lower_unary", file |-> file, op |-> "AND",
                         expr |-> expr, before |-> types,
                         ok |-> res.ok, val |-> res.val]
    /\ pc' = "done"
    /\ UNCHANGED dedup

(* a call of typename on a handle of the context *)
Typename ==
    /\ pc = "idle"
    /\ \E h \in Handles(types) :
         last' = [fn |-> "typename", ty |-> h, before |-> types,
                  out |-> typename(types, h)]
    /\ pc' = "done"
    /\ UNCHANGED dedup
    /\ UNCHANGED types

NextTypes == DeclareType \/ TakeAddress \/ Typename \/ Return

SpecTypes == Init /\ [][NextTypes]_vars

(***************************************************************************)
(* Compiler::gen_bin: the code generated for a binary expression.  An      *)
(* operand is the value its own code computes in one execution: an         *)
(* integer, a pointer (its address) or a float.  What gen_bin returns is   *)
(* the last builder call it makes, with the calls that build its           *)
(* arguments nested in it; a panic aborts the compilation.                 *)
(***************************************************************************)
GenOp ==
    { "Assign", "Plus", "Greater", "Less", "Equal", "GreaterEq", "NEqual",
      "LessEq", "And", "Or", "Xor", "Star", "Divide", "Modulo", "Minus",
      "AndAnd", "OrOr" }

Value(ty, v) == [build |-> "value", ty |-> ty, v |-> v]

ConstZeroBool == [build |-> "const_zero", ty |-> "i1", v |-> 0]

BuildStore(ptr, value) ==
    [build |-> "store", ptr |-> ptr, value |-> value]

BuildIntCompare(pred, lhs, rhs, name) ==
    [build |-> "int_compare", pred |-> pred, lhs |-> lhs, rhs |-> rhs,
     name |-> name]

BuildBinary(build, lhs, rhs, name) ==
    [build |-> build, lhs |-> lhs, rhs |-> rhs, name |-> name]

BuildPtrToInt(ptr, ty, name) ==
    [build |-> "ptr_to_int", arg |-> ptr, ty |-> ty, name |-> name]

BuildIntToPtr(int, name) ==
    [build |-> "int_to_ptr", arg |-> int, ty |-> "Pointer", name |-> name]

Emitted(instr) == [panic |-> FALSE, out |-> instr]
Panic(message) == [panic |-> TRUE, out |-> message]

(* the arms of the match on (ty, op) with ty an integer type *)
IntArms(lhs, rhs, op) ==
    CASE op = "Plus" -> Emitted(BuildBinary("int_add", lhs, rhs, "tmp_iadd"))
      [] op = "Greater" ->
            Emitted(BuildIntCompare("SGT", lhs, rhs, "int_greater_than_cmp"))
      [] op = "Less" ->
            Emitted(BuildIntCompare("SLT", lhs, rhs, "int_less_than_cmp"))
      [] op = "Equal" ->
            Emitted(BuildIntCompare("EQ", lhs, rhs, "int_eq_cmp"))
      [] op = "GreaterEq" ->
            Emitted(BuildIntCompare("SGE", lhs, rhs,
                                    "int_greater_than_eq_cmp"))
      [] op = "NEqual" ->
            Emitted(BuildIntCompare("NE", lhs, rhs, "int_not_eq_cmp"))
      [] op = "LessEq" ->
            Emitted(BuildIntCompare("SLE", lhs, rhs, "int_less_than_eq_cmp"))
      [] op = "And" -> Emitted(BuildBinary("and", lhs, rhs, "bit_and"))
      [] op = "Or" -> Emitted(BuildBinary("or", lhs, rhs, "bit_or"))
      [] op = "Xor" -> Emitted(BuildBinary("xor", lhs, rhs, "bit_xor"))
      [] op = "Star" -> Emitted(BuildBinary("int_mul", lhs, rhs, "int_mul"))
      [] op = "Divide" ->
            Emitted(BuildBinary("int_signed_div", lhs, rhs, "int_div"))
      [] op = "Modulo" ->
            Emitted(BuildBinary("int_signed_rem", lhs, rhs, "int_modulo"))
      [] op = "Minus" -> Emitted(BuildBinary("int_sub", lhs, rhs, "int_sub"))
      [] op = "AndAnd" ->
            Emitted(BuildBinary("and",
                BuildIntCompare("SGT", lhs, ConstZeroBool,
                                "and_and_cond_check_lhs"),
                BuildIntCompare("SGT", rhs, ConstZeroBool,
                                "and_and_cond_check_rhs"),
                "cond_and_and_cmp"))
      [] op = "OrOr" ->
            Emitted(BuildBinary("or",
                BuildIntCompare("SGT", lhs, ConstZeroBool,
                                "or_or_cond_check_lhs"),
                BuildIntCompare("SGT", rhs, ConstZeroBool,
                                "or_or_cond_check_rhs"),
                "cond_or_or_cmp"))
      [] OTHER ->
            Panic(<< "Unable to use operator '", op, "' on type ",
                     "(", lhs.ty, ", ", op, ")" >>)

PointerArm_EqualComparesEQ(lhs, rhs, op) ==
    LET l == BuildPtrToInt(lhs, "i64", "ptr_cmp_cast_lhs")
        r == BuildPtrToInt(rhs, "i64", "ptr_cmp_cast_rhs")
    IN  CASE op = "NEqual" ->
                Emitted(BuildIntCompare("NE", l, r, "ptr_nequal_cmp"))
          [] op = "Equal" ->
                Emitted(BuildIntCompare("EQ", l, r, "ptr_equal_cmp"))
          [] op = "Plus" ->
                Emitted(BuildIntToPtr(BuildBinary("int_add", l, r, "ptr_add"),
                                      "ptr_add_cast_back_to_ptr"))
          [] op = "Minus" ->
                Emitted(BuildIntToPtr(BuildBinary("int_sub", l, r, "ptr_sub"),
                                      "ptr_sub_cast_back_to_ptr"))
          [] op = "Star" ->
                Emitted(BuildIntToPtr(BuildBinary("int_mul", l, r, "ptr_mul"),
                                      "ptr_mul_cast_back_to_ptr"))
          [] op = "Divide" ->
                Emitted(BuildIntToPtr(
                    BuildBinary("int_unsigned_div", l, r, "ptr_div"),
                    "ptr_div_cast_back_to_ptr"))
          [] OTHER -> Panic(<< "Cannot use operator ", op, " on pointers" >>)

(* the arm of the match on (ty, op) with ty a pointer type: both operands  *)
(* are cast to 64-bit integers, then the inner match on op                 *)
PointerArm(lhs, rhs, op) ==
    LET l == BuildPtrToInt(lhs, "i64", "ptr_cmp_cast_lhs")
        r == BuildPtrToInt(rhs, "i64", "ptr_cmp_cast_rhs")
    IN  CASE op = "NEqual" ->
                Emitted(BuildIntCompare("NE", l, r, "ptr_nequal_cmp"))
          [] op = "Equal" ->
                Emitted(BuildIntCompare("NE", l, r, "ptr_equal_cmp"))
          [] op = "Plus" ->
                Emitted(BuildIntToPtr(BuildBinary("int_add", l, r, "ptr_add"),
                                      "ptr_add_cast_back_to_ptr"))
          [] op = "Minus" ->
                Emitted(BuildIntToPtr(BuildBinary("int_sub", l, r, "ptr_sub"),
                                      "ptr_sub_cast_back_to_ptr"))
          [] op = "Star" ->
                Emitted(BuildIntToPtr(BuildBinary("int_mul", l, r, "ptr_mul"),
                                      "ptr_mul_cast_back_to_ptr"))
          [] op = "Divide" ->
                Emitted(BuildIntToPtr(
                    BuildBinary("int_unsigned_div", l, r, "ptr_div"),
                    "ptr_div_cast_back_to_ptr"))
          [] OTHER -> Panic(<< "Cannot use operator ", op, " on pointers" >>)

(* the kinds of value BasicValueEnum::try_from accepts, among those of the *)
(* model                                                                   *)
BasicTypes == { "Int", "Pointer", "Float" }

gen_bin(lhs, rhs, op) ==
    IF op = "Assign"
    THEN IF lhs.ty # "Pointer"
         THEN Panic(<< "into_pointer_value on ", lhs.ty >>)
         ELSE IF rhs.ty \notin BasicTypes
         THEN Panic(<< "Right hand side of assignment expression is not a ",
                       "basic type!", ": ()" >>)
         ELSE Emitted(BuildStore(lhs, rhs))
    ELSE IF lhs.ty # rhs.ty
    THEN Panic(<< "Left hand side of '", op,
                  "' expression does not match types with right hand side!",
                  " LHS: ", lhs.ty, ", RHS: ", rhs.ty >>)
    ELSE CASE lhs.ty = "Int" -> IntArms(lhs, rhs, op)
           [] lhs.ty = "Pointer" -> PointerArm(lhs, rhs, op)
           [] OTHER ->
                Panic(<< "Unable to use operator '", op, "' on type ",
                         "(", lhs.ty, ", ", op, ")" >>)

(* the integer comparison of the backend on two 64-bit integers below 2^63 *)
ICmp(pred, a, b) ==
    CASE pred = "EQ" -> a = b
      [] pred = "NE" -> a # b
      [] pred = "SGT" -> a > b
      [] pred = "SLT" -> a < b
      [] pred = "SGE" -> a >= b
      [] pred = "SLE" -> a <= b

(* the integer an argument of a comparison evaluates to: a pointer cast to *)
(* a 64-bit integer is its address                                         *)
IntValue(x) == IF x.build = "ptr_to_int" THEN x.arg.v ELSE x.v

(* the result of executing an emitted comparison *)
RunCompare(instr) == ICmp(instr.pred, IntValue(instr.lhs), IntValue(instr.rhs))

(* the operand values: integers, addresses with 0 the null pointer, a      *)
(* float, and two values that are not basic values: a function and the     *)
(* instruction a nested assignment yields                                  *)
GenValues ==
    { Value("Int", v) : v \in (0 - 1) .. MaxAddr }
    \cup { Value("Pointer", a) : a \in 0 .. MaxAddr }
    \cup { Value("Float", 0), Value("Function", 0), Value("Instruction", 0) }

(* a call of gen_bin on generated operands *)
GenBin ==
    /\ pc = "idle"
    /\ \E op \in GenOp, lhs \in GenValues, rhs \in GenValues :
         LET res == gen_bin(lhs, rhs, op) IN
         last' = [fn |-> "gen_bin", lhs |-> lhs, rhs |-> rhs, op |-> op,
                  panic |-> res.panic, out |-> res.out]
    /\ pc' = "done"
    /\ UNCHANGED dedup
    /\ UNCHANGED types

(* the caller takes the generated value; after a panic there is no caller  *)
GenReturn ==
    /\ pc = "done"
    /\ last.fn = "gen_bin"
    /\ ~last.panic
    /\ pc' = "idle"
    /\ UNCHANGED dedup
    /\ last' = [fn |-> "none"]
    /\ UNCHANGED types

NextGen == GenBin \/ GenReturn

SpecGen == Init /\ [][NextGen]_vars

TypeOK ==
    /\ pc \in {"idle", "done"}
    /\ Len(types) <= MaxTypes
    /\ \A h \in Handles(types) :
         Index(types, h).kind = "Ptr" => Index(types, h).to \in Handles(types)

(***************************************************************************)
(* Properties.  In a state with pc = "done", last holds the call that was  *)
(* made, the interner before it and what it returned.                      *)
(***************************************************************************)
Kind(h) == Index(types, h).kind

(* the lowered operands of the last lower_bin, LHS first *)
LhsIr == lower_expr(last.before, last.file, last.lhs)
RhsIr == lower_expr(LhsIr.types, last.file, last.rhs)

(* lower_bin was called and both operands lowered to expressions *)
BinClassified ==
    /\ pc = "done"
    /\ last.fn = "lower_bin"
    /\ LhsIr.ok
    /\ RhsIr.ok

(* the lowered operand of the last lower_unary *)
ExprIr == lower_expr(last.before, last.file, last.expr)

(* lower_unary was called and its operand lowered to an expression *)
UnaryClassified ==
    /\ pc = "done"
    /\ last.fn = "lower_unary"
    /\ ExprIr.ok

Contains(seq, sub) ==
    \E i \in 0 .. (Len(seq) - Len(sub)) : SubSeq(seq, i + 1, i + Len(sub)) = sub

Comparisons == {"Eq", "Greater", "GreaterEq", "Less", "LessEq"}
Arithmetic == {"Star", "Div", "Add", "Sub"}
Shifts == {"ShLeft", "ShRight"}
Logical == {"LogicalAnd", "LogicalOr", "LogicalNot"}

(* a diagnostic of the binary type mismatch *)
IsBinaryTypeMismatch(d) ==
    /\ d.severity = "error"
    /\ Len(d.message) > 0
    /\ Head(d.message) = "Cannot apply binary operator "

(* C1: with both operand types Integer and an operator among the          *)
(* comparisons, the arithmetic operators and the shifts, lower_bin         *)
(* succeeds and the result type is the handle of the LHS operand's type,   *)
(* for the comparisons too.                                                *)
C1_IntegerBinaryYieldsLhsType ==
    ( /\ BinClassified
      /\ Kind(LhsIr.val.ty) = "Integer"
      /\ Kind(RhsIr.val.ty) = "Integer"
      /\ last.op \in Comparisons \cup Arithmetic \cup Shifts )
    => /\ last.ok
       /\ last.val.ty = LhsIr.val.ty

C1_Witness ==
    /\ BinClassified
    /\ last.lhs.node = "Atom" /\ last.lhs.ty = I32
    /\ last.rhs.node = "Atom" /\ last.rhs.ty = I32
    /\ last.op = "Less"
    /\ last.ok
    /\ last.val.ty = I32

(* C2: with both operand types Integer but different integer types,       *)
(* lower_bin fails with a TypeMismatch diagnostic.                         *)
C2_NoImplicitWidening ==
    ( /\ BinClassified
      /\ Kind(LhsIr.val.ty) = "Integer"
      /\ Kind(RhsIr.val.ty) = "Integer"
      /\ Index(types, LhsIr.val.ty) # Index(types, RhsIr.val.ty) )
    => /\ ~last.ok
       /\ IsBinaryTypeMismatch(last.val)

(* C3: with both operand types Bool, lower_bin succeeds exactly for        *)
(* LogicalAnd, LogicalOr, LogicalNot and Eq, and then with type BOOL.      *)
C3_BoolBinary ==
    ( /\ BinClassified
      /\ Kind(LhsIr.val.ty) = "Bool"
      /\ Kind(RhsIr.val.ty) = "Bool" )
    => IF last.op \in {"LogicalAnd", "LogicalOr", "LogicalNot", "Eq"}
       THEN last.ok /\ last.val.ty = BOOL
       ELSE ~last.ok

C3_Witness ==
    /\ BinClassified
    /\ last.lhs.node = "Atom" /\ last.lhs.ty = BOOL
    /\ last.rhs.node = "Atom" /\ last.rhs.ty = BOOL
    /\ last.op = "LogicalAnd"
    /\ last.ok
    /\ last.val.ty = BOOL

(* C4: with both operand types Float, lower_bin succeeds with the LHS type *)
(* handle for the comparisons and the arithmetic operators, and fails for  *)
(* the shifts.                                                             *)
C4_FloatBinary ==
    ( /\ BinClassified
      /\ Kind(LhsIr.val.ty) = "Float"
      /\ Kind(RhsIr.val.ty) = "Float" )
    => /\ last.op \in Comparisons \cup Arithmetic
            => last.ok /\ last.val.ty = LhsIr.val.ty
       /\ last.op \in Shifts => ~last.ok

C4_Witness ==
    /\ BinClassified
    /\ last.lhs.node = "Atom" /\ last.lhs.ty = F64
    /\ last.rhs.node = "Atom" /\ last.rhs.ty = F64
    /\ last.op = "ShLeft"
    /\ ~last.ok

(* C5: with an LHS operand of a Ptr type, lower_bin succeeds exactly when  *)
(* the operator is a shift and the RHS type is Integer, or the operator is *)
(* Add or Sub and the RHS type is Ptr or Integer; the result type is then  *)
(* the LHS type handle.                                                    *)
C5_PtrBinary ==
    ( /\ BinClassified
      /\ Kind(LhsIr.val.ty) = "Ptr" )
    => /\ last.ok <=>
            \/ last.op \in Shifts /\ Kind(RhsIr.val.ty) = "Integer"
            \/ last.op \in {"Add", "Sub"}
               /\ Kind(RhsIr.val.ty) \in {"Ptr", "Integer"}
       /\ last.ok => last.val.ty = LhsIr.val.ty

C5_Witness ==
    /\ BinClassified
    /\ last.lhs.node = "Atom"
    /\ Index(types, last.lhs.ty) = PtrType(BOOL)
    /\ last.rhs.node = "Atom" /\ last.rhs.ty = U32
    /\ last.op = "Add"
    /\ last.ok
    /\ last.val.ty = last.lhs.ty

(* the five rules of the acceptance table, over the kinds of the operands *)
InTable(l, op, r) ==
    \/ l = "Bool" /\ r = "Bool"
       /\ op \in {"LogicalAnd", "LogicalOr", "LogicalNot", "Eq"}
    \/ l = "Integer" /\ r = "Integer"
       /\ op \in Comparisons \cup Arithmetic \cup Shifts
    \/ l = "Float" /\ r = "Float" /\ op \in Comparisons \cup Arithmetic
    \/ l = "Ptr" /\ r = "Integer" /\ op \in Shifts
    \/ l = "Ptr" /\ r \in {"Ptr", "Integer"} /\ op \in {"Add", "Sub"}

(* C6: lower_bin returns an expression exactly for the combinations of the *)
(* five rules and a TypeMismatch diagnostic for every other combination.   *)
C6_TableIsExact ==
    BinClassified
    => /\ last.ok <=> InTable(Kind(LhsIr.val.ty), last.op, Kind(RhsIr.val.ty))
       /\ ~last.ok => IsBinaryTypeMismatch(last.val)

C6_Witness ==
    /\ BinClassified
    /\ last.lhs.node = "Atom" /\ Kind(last.lhs.ty) = "Struct"
    /\ last.rhs.node = "Atom" /\ Kind(last.rhs.ty) = "Struct"
    /\ last.op = "Add"
    /\ ~last.ok
    /\ IsBinaryTypeMismatch(last.val)

(* C7: lower_bin of two operands of Ptr types with Eq succeeds with the    *)
(* result type BOOL.                                                       *)
C7_PtrEqualityYieldsBool ==
    ( /\ BinClassified
      /\ Kind(LhsIr.val.ty) = "Ptr"
      /\ Kind(RhsIr.val.ty) = "Ptr"
      /\ last.op = "Eq" )
    => /\ last.ok
       /\ last.val.ty = BOOL

(* C8: the span of a successful lower_bin starts where the lowered LHS     *)
(* starts and ends where the lowered RHS ends, whatever the operator and   *)
(* the operand types.                                                      *)
C8_BinarySpanCoversOperands ==
    ( /\ BinClassified
      /\ last.ok )
    => /\ last.val.span.from = LhsIr.val.span.from
       /\ last.val.span.to = RhsIr.val.span.to

C8_Witness ==
    /\ BinClassified
    /\ last.ok
    /\ LhsIr.val.span = Span(0, 1)
    /\ RhsIr.val.span = Span(1, 2)
    /\ last.val.span = Span(0, 2)
    /\ last.op = "Sub"

(* C9: a TypeMismatch of lower_bin has three labels: the primary one over  *)
(* lhs.span.from..rhs.span.to, then a secondary one at the LHS span and a  *)
(* secondary one at the RHS span, each with the name of that operand's     *)
(* type; its message has the operator and the names of both operand types. *)
C9_BinaryMismatchLabels ==
    ( /\ BinClassified
      /\ ~last.ok )
    => LET d == last.val
           lname == typename(types, LhsIr.val.ty)
           rname == typename(types, RhsIr.val.ty)
       IN  /\ Len(d.labels) = 3
           /\ d.labels[1].style = "primary"
           /\ d.labels[1].span = Span(LhsIr.val.span.from, RhsIr.val.span.to)
           /\ d.labels[2].style = "secondary"
           /\ d.labels[2].span = LhsIr.val.span
           /\ Contains(d.labels[2].message, lname)
           /\ d.labels[3].style = "secondary"
           /\ d.labels[3].span = RhsIr.val.span
           /\ Contains(d.labels[3].message, rname)
           /\ Contains(d.message, OpDisplay(last.op))
           /\ Contains(d.message, lname)
           /\ Contains(d.message, rname)

C9_Witness ==
    /\ BinClassified
    /\ ~last.ok
    /\ last.op = "Add"
    /\ LhsIr.val.ty = I32
    /\ RhsIr.val.ty = F32
    /\ Len(last.val.labels) = 3
    /\ last.val.labels[3].message = << "RHS of type ", "f32", " appears here" >>

(* C10: lower_unary with Star on an operand of type Ptr(T) succeeds with   *)
(* the result type T, and inserts no type.                                 *)
C10_DerefYieldsPointee ==
    ( /\ UnaryClassified
      /\ last.op = "Star"
      /\ Kind(ExprIr.val.ty) = "Ptr" )
    => /\ last.ok
       /\ last.val.ty = Index(types, ExprIr.val.ty).to
       /\ types = ExprIr.types

C10_Witness ==
    /\ UnaryClassified
    /\ last.op = "Star"
    /\ last.expr.node = "Atom"
    /\ Index(types, last.expr.ty) = PtrType(I32)
    /\ last.ok
    /\ last.val.ty = I32
    /\ types = last.before

(* a diagnostic of the unary type mismatch *)
IsUnaryTypeMismatch(d) ==
    /\ d.severity = "error"
    /\ Len(d.message) > 0
    /\ Head(d.message) = "Cannot apply unary operator "

(* C11: lower_unary with AND succeeds for an operand of any type T, and    *)
(* the result type handle resolves, in the context the call leaves, to     *)
(* Ptr(T) with T the handle of the operand's type.                         *)
C11_AddressOfYieldsPtr ==
    ( /\ UnaryClassified
      /\ last.op = "AND" )
    => /\ last.ok
       /\ last.val.ty \in Handles(types)
       /\ Index(types, last.val.ty) = PtrType(ExprIr.val.ty)

C11_Witness ==
    /\ UnaryClassified
    /\ last.op = "AND"
    /\ last.expr.node = "Atom"
    /\ Index(last.before, last.expr.ty) = StructType(<< <<I32, "x">> >>)
    /\ last.ok
    /\ Index(types, last.val.ty) = PtrType(last.expr.ty)
    /\ last.val.ty \notin Handles(last.before)

(* C12: lower_unary with Sub on an Integer or Float operand, and with NOT  *)
(* on an Integer or Ptr operand, succeeds with the handle of the operand's *)
(* type as result type.                                                    *)
C12_NegationAndComplementKeepType ==
    ( /\ UnaryClassified
      /\ \/ last.op = "Sub" /\ Kind(ExprIr.val.ty) \in {"Integer", "Float"}
         \/ last.op = "NOT" /\ Kind(ExprIr.val.ty) \in {"Integer", "Ptr"} )
    => /\ last.ok
       /\ last.val.ty = ExprIr.val.ty

C12_Witness ==
    /\ UnaryClassified
    /\ last.op = "NOT"
    /\ last.expr.node = "Atom"
    /\ Index(types, last.expr.ty) = PtrType(F32)
    /\ last.ok
    /\ last.val.ty = last.expr.ty

(* the four rules of unary typing, over the kind of the operand type *)
InUnaryTable(op, k) ==
    \/ op = "Star" /\ k = "Ptr"
    \/ op = "AND"
    \/ op = "Sub" /\ k \in {"Integer", "Float"}
    \/ op = "NOT" /\ k \in {"Integer", "Ptr"}

(* C13: for every operator and operand type outside the four unary rules,  *)
(* lower_unary returns a TypeMismatch diagnostic with exactly one label,   *)
(* a primary label at the operand's span.                                  *)
C13_UnaryMismatchHasOnePrimaryLabel ==
    ( /\ UnaryClassified
      /\ ~InUnaryTable(last.op, Kind(ExprIr.val.ty)) )
    => /\ ~last.ok
       /\ IsUnaryTypeMismatch(last.val)
       /\ Len(last.val.labels) = 1
       /\ last.val.labels[1].style = "primary"
       /\ last.val.labels[1].span = ExprIr.val.span

C13_Witness ==
    /\ UnaryClassified
    /\ last.op = "Star"
    /\ last.expr.node = "Atom" /\ last.expr.ty = BOOL
    /\ ~last.ok
    /\ IsUnaryTypeMismatch(last.val)
    /\ Len(last.val.labels) = 1

(* C14: the span of a successful lower_unary is the span of the lowered    *)
(* operand, for every operator.                                            *)
C14_UnarySpanIsOperandSpan ==
    ( /\ UnaryClassified
      /\ last.ok )
    => last.val.span = ExprIr.val.span

C14_Witness ==
    /\ UnaryClassified
    /\ last.ok
    /\ last.op = "Sub"
    /\ ExprIr.val.span = Span(1, 2)
    /\ last.val.span = Span(1, 2)

(* C19: lower_bin lowers the LHS first and the RHS second.  When the LHS   *)
(* fails its diagnostic is returned unchanged and the RHS is not lowered;  *)
(* when the LHS succeeds and the RHS fails the diagnostic of the RHS is    *)
(* returned unchanged.  lower_unary returns the diagnostic of its operand  *)
(* unchanged.                                                              *)
C19_OperandErrorsAreThreaded ==
    /\ ( pc = "done" /\ last.fn = "lower_bin" /\ ~LhsIr.ok )
       => /\ ~last.ok
          /\ last.val = LhsIr.val
          /\ types = LhsIr.types
    /\ ( pc = "done" /\ last.fn = "lower_bin" /\ LhsIr.ok /\ ~RhsIr.ok )
       => /\ ~last.ok
          /\ last.val = RhsIr.val
          /\ types = RhsIr.types
    /\ ( pc = "done" /\ last.fn = "lower_unary" /\ ~ExprIr.ok )
       => /\ ~last.ok
          /\ last.val = ExprIr.val
          /\ types = ExprIr.types

C19_Witness ==
    /\ pc = "done"
    /\ last.fn = "lower_bin"
    /\ last.lhs = Bad(Span(0, 1))
    /\ last.rhs = Unary("AND", Atom(Span(1, 2), I32))
    /\ ~last.ok
    /\ last.val = OperandDiagnostic(last.file, Span(0, 1))
    /\ types = last.before
    /\ \A h \in Handles(types) : Index(types, h) # PtrType(I32)

(* C20: after the operands are lowered, only lower_unary with AND changes  *)
(* the interner, by one insert of Ptr(T): the classification of lower_bin  *)
(* and lower_unary with any other operator leave it as the operands left   *)
(* it, whether they succeed or fail.                                       *)
C20_OnlyAddressOfInserts ==
    /\ BinClassified => types = RhsIr.types
    /\ ( UnaryClassified /\ last.op # "AND" ) => types = ExprIr.types
    /\ ( UnaryClassified /\ last.op = "AND" )
       => /\ types \in { ExprIr.types,
                         Append(ExprIr.types, PtrType(ExprIr.val.ty)) }
          /\ \E h \in Handles(types) :
                Index(types, h) = PtrType(ExprIr.val.ty)

C20_Witness ==
    /\ UnaryClassified
    /\ last.op = "AND"
    /\ last.expr.node = "Atom" /\ last.expr.ty = F64
    /\ types = Append(last.before, PtrType(F64))

(* the characters of a piece of formatted text *)
Chars(p) ==
    CASE p = "i8" -> << "i", "8" >>
      [] p = "i16" -> << "i", "1", "6" >>
      [] p = "i32" -> << "i", "3", "2" >>
      [] p = "i64" -> << "i", "6", "4" >>
      [] p = "u8" -> << "u", "8" >>
      [] p = "u16" -> << "u", "1", "6" >>
      [] p = "u32" -> << "u", "3", "2" >>
      [] p = "u64" -> << "u", "6", "4" >>
      [] p = "f32" -> << "f", "3", "2" >>
      [] p = "f64" -> << "f", "6", "4" >>
      [] p = "bool" -> << "b", "o", "o", "l" >>
      [] p = "()" -> << "(", ")" >>
      [] p = "INVALID" -> << "I", "N", "V", "A", "L", "I", "D" >>
      [] p = " | " -> << " ", "|", " " >>
      [] OTHER -> << p >>

(* the text a sequence of pieces spells, character by character *)
RECURSIVE Text(_)
Text(pieces) ==
    IF pieces = << >> THEN << >>
    ELSE Chars(Head(pieces)) \o Text(Tail(pieces))

(* typename was called *)
Named == pc = "done" /\ last.fn = "typename"

(* C15: in a context built by IrContext::new the handles I8 .. INVALID     *)
(* resolve to the signed integers of 8, 16, 32 and 64 bits, the unsigned   *)
(* ones, Bool, Unit, the single and the double float and Invalid, and      *)
(* still do after any sequence of insertions.                              *)
C15_PrimitiveHandlesAreFixed ==
    /\ Index(types, I8) = IntegerType(TRUE, 8)
    /\ Index(types, I16) = IntegerType(TRUE, 16)
    /\ Index(types, I32) = IntegerType(TRUE, 32)
    /\ Index(types, I64) = IntegerType(TRUE, 64)
    /\ Index(types, U8) = IntegerType(FALSE, 8)
    /\ Index(types, U16) = IntegerType(FALSE, 16)
    /\ Index(types, U32) = IntegerType(FALSE, 32)
    /\ Index(types, U64) = IntegerType(FALSE, 64)
    /\ Index(types, BOOL) = BoolType
    /\ Index(types, UNIT) = UnitType
    /\ Index(types, F32) = FloatType(FALSE)
    /\ Index(types, F64) = FloatType(TRUE)
    /\ Index(types, INVALID) = InvalidType

C15_Witness ==
    /\ pc = "done"
    /\ last.fn = "lower_unary"
    /\ last.op = "AND"
    /\ Len(last.before) = Len(new) + 2
    /\ Len(types) = Len(new) + 3
    /\ Index(types, INVALID) = InvalidType
    /\ Index(types, I8) = IntegerType(TRUE, 8)

(* C16: the handle an insertion returns resolves to the inserted type      *)
(* right after it, and every handle of the interner resolves to the same   *)
(* type after any further step: entries are not moved, changed or removed. *)
C16_HandlesAreStable ==
    /\ []( ( pc = "done" /\ last.fn = "insert" )
           => /\ last.id \in Handles(types)
              /\ Index(types, last.id) = last.ty )
    /\ [][ \A h \in Handles(types) :
              /\ h \in Handles(types')
              /\ Index(types', h) = Index(types, h) ]_vars

C16_Witness ==
    /\ pc = "done"
    /\ last.fn = "insert"
    /\ Len(last.before) = Len(new) + 1
    /\ Len(types) = Len(new) + 2
    /\ Index(types, last.id) = last.ty
    /\ Index(types, Len(new)) = Index(last.before, Len(new))
    /\ Index(types, Len(new)) # last.ty

(* C17: typename renders a pointer as '*' and the name of the pointee, an  *)
(* array as '[len]' and the name of the element, a struct as '{', then     *)
(* 'type name,' for each field, then '}'; a pointer to an array of 4 of a  *)
(* struct with the one field x of type i32 renders as *[4]{i32 x,}.        *)
C17_TypenameOfNestedTypes ==
    Named =>
    LET t == Index(types, last.ty) IN
    /\ t.kind = "Ptr"
         => Text(last.out) = << "*" >> \o Text(typename(types, t.to))
    /\ t.kind = "Array"
         => Text(last.out) =
               << "[" >> \o (IF t.len = 4 THEN << "4" >> ELSE << "1", "2" >>)
               \o << "]" >> \o Text(typename(types, t.element))
    /\ t = StructType(<< <<I32, "x">> >>)
         => Text(last.out) = << "{", "i", "3", "2", " ", "x", ",", "}" >>
    /\ ( /\ t.kind = "Ptr"
         /\ Index(types, t.to).kind = "Array"
         /\ Index(types, t.to).len = 4
         /\ Index(types, Index(types, t.to).element)
               = StructType(<< <<I32, "x">> >>) )
         => Text(last.out) =
               << "*", "[", "4", "]", "{", "i", "3", "2", " ", "x", ",", "}" >>

C17_Witness ==
    /\ Named
    /\ Index(types, last.ty).kind = "Ptr"
    /\ Index(types, Index(types, last.ty).to).kind = "Array"
    /\ Index(types, Index(types, last.ty).to).len = 4
    /\ Index(types, Index(types, Index(types, last.ty).to).element)
          = StructType(<< <<I32, "x">> >>)
    /\ Text(last.out) =
          << "*", "[", "4", "]", "{", "i", "3", "2", " ", "x", ",", "}" >>

(* the names of the variants with ' | ' between consecutive ones *)
RECURSIVE JoinedVariants(_, _)
JoinedVariants(ts, vs) ==
    IF vs = << >> THEN << >>
    ELSE IF Tail(vs) = << >> THEN Text(typename(ts, Head(vs)))
    ELSE Text(typename(ts, Head(vs))) \o << " ", "|", " " >>
         \o JoinedVariants(ts, Tail(vs))

(* C18: typename renders a Sum as the names of its variants with ' | '     *)
(* between consecutive variants and none after the last one.               *)
C18_SumVariantsAreSeparated ==
    ( /\ Named
      /\ Index(types, last.ty).kind = "Sum" )
    => Text(last.out) = JoinedVariants(types, Index(types, last.ty).variants)

(* ts is bs followed by zero or more further entries *)
IsExtension(bs, ts) ==
    /\ Len(bs) <= Len(ts)
    /\ SubSeq(ts, 1, Len(bs)) = bs

(* the lowered operands of the last lower_bin that are an address-of *)
AddrOfOperands ==
    { e \in { LhsIr.val, RhsIr.val } :
        /\ e.kind.tag = "Unary"
        /\ e.kind.op = "AND" }

(* lower_bin failed on its own match after both operands were lowered, at  *)
(* least one of them an address-of                                         *)
MismatchAfterAddrOf ==
    /\ BinClassified
    /\ ~last.ok
    /\ IsBinaryTypeMismatch(last.val)
    /\ AddrOfOperands # {}

C22_AliasAndInvalidAreNotLookedThrough ==
    /\ ( /\ BinClassified
         /\ \/ Kind(LhsIr.val.ty) \in {"Alias", "Invalid"}
            \/ Kind(RhsIr.val.ty) \in {"Alias", "Invalid"} )
       => /\ ~last.ok
          /\ IsBinaryTypeMismatch(last.val)
    /\ ( /\ UnaryClassified
         /\ Kind(ExprIr.val.ty) \in {"Alias", "Invalid"}
         /\ last.op \in {"Star", "Sub", "NOT"} )
       => /\ ~last.ok
          /\ IsUnaryTypeMismatch(last.val)

C22_Witness ==
    /\ BinClassified
    /\ last.lhs.node = "Atom"
    /\ Index(types, last.lhs.ty).kind = "Alias"
    /\ Index(types, Index(types, last.lhs.ty).ty) = PtrType(I32)
    /\ last.rhs.node = "Atom" /\ last.rhs.ty = I32
    /\ last.op = "Add"
    /\ ~last.ok
    /\ IsBinaryTypeMismatch(last.val)

(* gen_bin was called on two pointers with == or != *)
PointerCompared ==
    /\ pc = "done"
    /\ last.fn = "gen_bin"
    /\ last.lhs.ty = "Pointer"
    /\ last.rhs.ty = "Pointer"
    /\ last.op \in {"Equal", "NEqual"}

(* C23: in gen_bin with both operands pointers, Equal and NEqual both emit *)
(* an integer comparison with the predicate NE on the two pointers cast to *)
(* 64-bit integers, so == and != produce the same result for every pair of *)
(* pointers: true exactly when the addresses differ.                       *)
C23_PointerEqualEmitsNE ==
    PointerCompared
    => /\ ~last.panic
       /\ last.out.build = "int_compare"
       /\ last.out.pred = "NE"
       /\ last.out.lhs = BuildPtrToInt(last.lhs, "i64", "ptr_cmp_cast_lhs")
       /\ last.out.rhs = BuildPtrToInt(last.rhs, "i64", "ptr_cmp_cast_rhs")
       /\ RunCompare(last.out) = (last.lhs.v # last.rhs.v)
       /\ RunCompare(gen_bin(last.lhs, last.rhs, "Equal").out)
             = RunCompare(gen_bin(last.lhs, last.rhs, "NEqual").out)

C23_Witness ==
    /\ PointerCompared
    /\ last.op = "Equal"
    /\ last.lhs.v = 1 /\ last.rhs.v = 1
    /\ last.out.pred = "NE"
    /\ RunCompare(last.out) = FALSE

====
